---- MODULE Spec2Model ----
(***************************************************************************)
(* A state-machine model of the PS Vita symbol loader (vita_loader.py,     *)
(* structs.py, __init__.py): VitaElf.load_vita_symbols and the stages it   *)
(* drives, run against a Binary Ninja view.                                *)
(*                                                                         *)
(* Python integers are unbounded, so addresses and file offsets are plain  *)
(* integers.  A 32-bit word whose bit pattern matters (e_entry, the NIDs)  *)
(* is kept as the pair <<hi, lo>> of its 16-bit halves.                    *)
(***************************************************************************)
EXTENDS Integers, Sequences, FiniteSets, TLC

VARIABLES
    image,          \* the loaded file, the loaded view's bytes and the user's answers
    pc,             \* position inside load_vita_symbols
    run,            \* how many times the command has been invoked on this view
    self,           \* the VitaElf instance's attributes and the walkers' locals
    bv,             \* the host model: functions, symbols, data variables, types
    log,            \* what went to log_info / log_error
    exc,            \* the exception in flight ("" when none)
    emitted,        \* the add_function_symbol / add_data_symbol calls of this run
    prev_emitted,   \* the same, for the run before
    iters,          \* loop iterations begun by each walker in this run
    workers,        \* the n_linearsweep threads sweep_before_load has started
    main_queue      \* callables handed to execute_on_main_thread and not yet run

vars ==
    <<image, pc, run, self, bv, log, exc, emitted, prev_emitted, iters, workers, main_queue>>

----------------------------------------------------------------------------
(* Bounds of the model *)

MaxPhdrs == 3         \* program-header entries in the table
MaxExportRecs == 2    \* export records laid out in the file
MaxImportRecs == 2    \* import records laid out in the file
MaxRuns == 2          \* invocations of the command on one view

----------------------------------------------------------------------------
(* Program constants *)

ET_SCE_RELEXEC == 65028        \* 0xFE04
ET_SCE_EXEC == 65024           \* 0xFE00
ET_SCE_ARMRELEXEC == 65445     \* 0xFFA5
PT_LOAD == 1
ELFCLASS32 == 1
ELFDATA2LSB == 1
ELFDATA2MSB == 2
module_info_size == 92         \* 0x5C
export_struct_calcsize == 32   \* struct.calcsize("BBHHHHHBBBBIIII")
IMPORT_SIZE_PRX2ARM == 52      \* 0x34
IMPORT_SIZE_PRX2ARM_NEW == 36  \* 0x24
ATTR_NONAME == 32768           \* 0x8000
None == -1                     \* Python's None, where the value is otherwise an integer >= 0

NID_MODULE_START == <<37724, 53654>>      \* 0x935CD196
NID_MODULE_INFO == <<27682, 9402>>        \* 0x6C2224BA
NID_MODULE_PROC_PARAM == <<28923, 41447>> \* 0x70FBA1E7

----------------------------------------------------------------------------
(* 32-bit words as <<hi, lo>> *)

\* e_entry >> 30 & 0x3
seg_idx_of(e_entry) == (e_entry[1] \div 16384) % 4

\* e_entry & 0x3FFFFFFF
seg_offset_of(e_entry) == (e_entry[1] % 16384) * 65536 + e_entry[2]

\* struct.unpack("<I", ...)[0] of a word used as an address (hi < 0x8000 here)
unpack_addr(w) == w[1] * 65536 + w[2]

HexDigits == <<"0", "1", "2", "3", "4", "5", "6", "7",
               "8", "9", "A", "B", "C", "D", "E", "F">>

\* f"{h:04X}" of one 16-bit half
Hex4(h) ==
    HexDigits[((h \div 4096) % 16) + 1] \o HexDigits[((h \div 256) % 16) + 1]
        \o HexDigits[((h \div 16) % 16) + 1] \o HexDigits[(h % 16) + 1]

\* f"{nid:08X}" of a 32-bit word
format_08X(nid) == Hex4(nid[1]) \o Hex4(nid[2])

----------------------------------------------------------------------------
(* The identifier database (yaml.safe_load of the NID file) *)

\* A library: its "nid" (<<>> when the key is absent) and its "functions" and
\* "variables" mappings as <<name, nid>> pairs in iteration order.
Lib(nid, functions, variables) ==
    [nid |-> nid, functions |-> functions, variables |-> variables]

NID_SceKernel == <<4660, 22136>>        \* 0x12345678
NID_SceOther == <<43981, 61185>>        \* 0xABCDEF01
NID_sceFoo == <<192, 65518>>            \* 0x00C0FFEE
NID_sceBar == <<51966, 47806>>          \* 0xCAFEBABE
NID_sceOtherOnly == <<4112, 8208>>      \* 0x10102010
NID_sceBaz == <<65261, 64206>>          \* 0xFEEDFACE
NID_missing == <<57005, 48879>>         \* 0xDEADBEEF
NID_sceVar == <<2989, 61453>>           \* 0x0BADF00D
NID_sceVarOther == <<24589, 57005>>     \* 0x600DDEAD

\* Two modules; the library nid NID_SceKernel is stored twice, NID_sceFoo is
\* mapped by two names of the first library and by one of the later one.
DB_MAIN ==
    [truthy |-> TRUE, has_modules |-> TRUE,
     modules |-> <<
        [has_libraries |-> TRUE,
         libraries |-> <<
            Lib(NID_SceKernel,
                << <<"sceFoo", NID_sceFoo>>, <<"sceFooAlias", NID_sceFoo>>,
                   <<"sceBar", NID_sceBar>> >>,
                << <<"sceVar", NID_sceVar>> >>) >>],
        [has_libraries |-> FALSE, libraries |-> <<>>],
        [has_libraries |-> TRUE,
         libraries |-> <<
            Lib(<<>>, << <<"sceNoNid", NID_missing>> >>, <<>>),
            Lib(NID_SceOther,
                << <<"sceOtherOnly", NID_sceOtherOnly>> >>,
                << <<"sceVarOther", NID_sceVarOther>> >>),
            Lib(NID_SceKernel,
                << <<"sceFooLate", NID_sceFoo>>, <<"sceBaz", NID_sceBaz>> >>,
                << <<"sceVarLate", NID_sceVar>> >>) >>] >>]

\* A document without a "modules" key
DB_NO_MODULES == [truthy |-> TRUE, has_modules |-> FALSE, modules |-> <<>>]

\* None: the attribute as __init__ leaves it, and yaml.safe_load of an empty document
DB_NONE == [truthy |-> FALSE, has_modules |-> FALSE, modules |-> <<>>]

RECURSIVE first_name_with_nid(_, _, _)
\* for name, nid in mapping.items(): if nid == wanted: return name
first_name_with_nid(mapping, wanted, i) ==
    IF i > Len(mapping) THEN <<FALSE, "">>
    ELSE IF mapping[i][2] = wanted THEN <<TRUE, mapping[i][1]>>
    ELSE first_name_with_nid(mapping, wanted, i + 1)

RECURSIVE scan_libraries_any_nid(_, _, _, _, _)
\* scan_libraries without the test of the library's nid
scan_libraries_any_nid(libraries, kind, library_nid, wanted, j) ==
    IF j > Len(libraries) THEN <<FALSE, "">>
    ELSE LET lib == libraries[j]
             hit == first_name_with_nid(
                        IF kind = "functions" THEN lib.functions ELSE lib.variables,
                        wanted, 1)
         IN  IF hit[1] THEN hit
             ELSE scan_libraries_any_nid(libraries, kind, library_nid, wanted, j + 1)

RECURSIVE scan_libraries(_, _, _, _, _)
\* for lib_name, lib in module["libraries"].items(): if lib.get("nid") == library_nid: ...
scan_libraries(libraries, kind, library_nid, wanted, j) ==
    IF j > Len(libraries) THEN <<FALSE, "">>
    ELSE LET lib == libraries[j]
             hit == IF lib.nid = library_nid
                    THEN first_name_with_nid(
                             IF kind = "functions" THEN lib.functions ELSE lib.variables,
                             wanted, 1)
                    ELSE <<FALSE, "">>
         IN  IF hit[1] THEN hit
             ELSE scan_libraries(libraries, kind, library_nid, wanted, j + 1)

RECURSIVE scan_modules(_, _, _, _, _)
\* for module_name, module in nid_database["modules"].items(): if "libraries" in module: ...
scan_modules(modules, kind, library_nid, wanted, k) ==
    IF k > Len(modules) THEN <<FALSE, "">>
    ELSE LET hit == IF modules[k].has_libraries
                    THEN scan_libraries(modules[k].libraries, kind, library_nid, wanted, 1)
                    ELSE <<FALSE, "">>
         IN  IF hit[1] THEN hit
             ELSE scan_modules(modules, kind, library_nid, wanted, k + 1)

\* default_name made unique against the names the view already holds
default_name_unique(library_name, nid) ==
    IF \E sym \in bv.symbols : sym.name = library_name \o "_" \o format_08X(nid)
    THEN library_name \o "_" \o format_08X(nid) \o "_1"
    ELSE library_name \o "_" \o format_08X(nid)

\* The default name: f"{library_name}_{nid:08X}"
default_name(library_name, nid) == library_name \o "_" \o format_08X(nid)

\* VitaElf.lookup_nid_function; self.nid_database is a database or DB_NONE
lookup_nid_function(nid_database, library_nid, function_nid, library_name) ==
    LET hit == IF nid_database.truthy /\ nid_database.has_modules
               THEN scan_modules(nid_database.modules, "functions",
                                 library_nid, function_nid, 1)
               ELSE <<FALSE, "">>
    IN  IF hit[1] THEN hit[2] ELSE default_name(library_name, function_nid)

\* VitaElf.lookup_nid_variable
lookup_nid_variable(nid_database, library_nid, variable_nid, library_name) ==
    LET hit == IF nid_database.truthy /\ nid_database.has_modules
               THEN scan_modules(nid_database.modules, "variables",
                                 library_nid, variable_nid, 1)
               ELSE <<FALSE, "">>
    IN  IF hit[1] THEN hit[2] ELSE default_name(library_name, variable_nid)

----------------------------------------------------------------------------
(* The loaded view (bv): the bytes the host mapped, read by bv.read *)

view_start == 4096      \* first mapped address of the view
view_end == 8192        \* first address past the mapped bytes

\* Words of the view that are not zero: the NID tables and entry tables.
\* (address, word) pairs; every other mapped word reads as zero.
ViewWords ==
    { \* NONAME export: 2 functions, 3 variables (nidtable 5888, addtable 5952)
      <<5888, NID_MODULE_START>>, <<5892, NID_sceFoo>>,
      <<5896, NID_MODULE_INFO>>, <<5900, NID_MODULE_PROC_PARAM>>, <<5904, NID_sceVar>>,
      <<5952, <<0, 4113>> >>, <<5956, <<0, 4128>> >>,
      <<5960, <<0, 4352>> >>, <<5964, <<0, 4480>> >>, <<5968, <<0, 4488>> >>,
      \* SceKernel export: 4 functions, 2 variables (nidtable 6016, addtable 6080)
      <<6016, NID_sceFoo>>, <<6020, NID_sceOtherOnly>>,
      <<6024, NID_sceBaz>>, <<6028, NID_missing>>,
      <<6032, NID_sceVar>>, <<6036, NID_sceVarOther>>,
      <<6080, <<0, 4144>> >>, <<6084, <<0, 4160>> >>,
      <<6088, <<0, 4176>> >>, <<6092, <<0, 6400>> >>,
      <<6096, <<0, 4496>> >>, <<6100, <<0, 4148>> >>,
      \* SceKernel import (0x34): 2 functions, 1 variable
      <<6144, NID_sceBar>>, <<6148, NID_missing>>, <<6176, <<0, 4192>> >>, <<6180, <<0, 4208>> >>,
      <<6208, NID_sceVar>>, <<6240, <<0, 4504>> >>,
      \* SceOther import (0x24): 1 function, 1 variable
      <<6272, NID_sceOtherOnly>>, <<6304, <<0, 4224>> >>,
      <<6336, NID_sceVarOther>>, <<6368, <<0, 4512>> >>,
      \* a module_start export whose tables end with the view (8184, 8176)
      <<8184, NID_MODULE_START>>, <<8188, NID_sceBar>>,
      <<8176, <<0, 4241>> >>, <<8180, <<0, 4256>> >> }

\* NUL-terminated strings of the view: (address, characters)
ViewStrings ==
    { <<5632, <<"S", "c", "e", "K", "e", "r", "n", "e", "l">> >>,
      <<5648, <<"N", "O", "N", "A", "M", "E">> >>,
      <<5664, <<"S", "c", "e", "O", "t", "h", "e", "r">> >> }

\* bv.read(addr, 4): <<TRUE, word>> for 4 mapped bytes, <<FALSE, _>> for a short read
bv_read4(addr) ==
    IF addr >= view_start /\ addr + 4 <= view_end
    THEN IF \E p \in ViewWords : p[1] = addr
         THEN <<TRUE, (CHOOSE p \in ViewWords : p[1] = addr)[2]>>
         ELSE <<TRUE, <<0, 0>> >>
    ELSE <<FALSE, <<0, 0>> >>

\* bv.read(addr, 1) as a character; "" for a NUL byte and for an unmapped address
bv_read1(addr) ==
    IF \E p \in ViewStrings : addr >= p[1] /\ addr < p[1] + Len(p[2])
    THEN LET p == CHOOSE q \in ViewStrings : addr >= q[1] /\ addr < q[1] + Len(q[2])
         IN  p[2][addr - p[1] + 1]
    ELSE ""

RECURSIVE read_string_at(_)
\* VitaElf.read_string_at: characters up to the first NUL or unreadable byte
read_string_at(addr) ==
    LET c == bv_read1(addr)
    IN  IF c = "" THEN "" ELSE c \o read_string_at(addr + 1)

----------------------------------------------------------------------------
(* The raw file (bv.parent_view): zero bytes except for the structures below *)

Phdr(complete, p_type, p_offset, p_vaddr) ==
    [complete |-> complete, p_type |-> p_type, p_offset |-> p_offset, p_vaddr |-> p_vaddr]

\* An export record (SceLibEnt_prx2arm) as its decoded fields; b0 and b1 are its
\* first two bytes (structsize, reserved1).
ExportRec(b0, b1, attribute, nfunc, nvar, library_nid, libname, nidtable, addtable) ==
    [b0 |-> b0, b1 |-> b1, attribute |-> attribute, num_functions |-> nfunc,
     num_vars |-> nvar, library_nid |-> library_nid, library_name_addr |-> libname,
     nid_table_addr |-> nidtable, entry_table_addr |-> addtable]

\* An import record (SceLibStub_prx2arm / _new) as its decoded fields
ImportRec(b0, b1, nfunc, nvar, library_nid, libname, fnid, fent, vnid, vent) ==
    [b0 |-> b0, b1 |-> b1, num_functions |-> nfunc, num_vars |-> nvar,
     library_nid |-> library_nid, library_name_addr |-> libname,
     func_nid_table_addr |-> fnid, func_entry_table_addr |-> fent,
     var_nid_table_addr |-> vnid, var_entry_table_addr |-> vent]

EXP_NONAME == ExportRec(32, 0, ATTR_NONAME, 2, 3, <<0, 0>>, 0, 5888, 5952)
EXP_SceKernel == ExportRec(32, 0, 1, 4, 2, NID_SceKernel, 5632, 6016, 6080)
\* bytes 00 01: a declared length of 0x100 with structsize 0
EXP_ZERO_STRUCTSIZE == ExportRec(0, 1, 1, 1, 0, NID_SceKernel, 5632, 6016, 6080)
\* bytes 10 00: shorter than the fixed layout
EXP_SHORT == ExportRec(16, 0, 1, 1, 0, NID_SceKernel, 5632, 6016, 6080)
\* bytes 20 01: structsize 0x20, reserved1 1
EXP_RESERVED1 == ExportRec(32, 1, 1, 1, 1, NID_SceKernel, 5632, 6016, 6080)
\* attribute 0x8001 with a null name pointer
EXP_ATTR_8001 == ExportRec(32, 0, ATTR_NONAME + 1, 2, 1, <<0, 0>>, 0, 5888, 5952)
\* a library whose name string reads "NONAME"; its tables end with the view
EXP_NAMED_NONAME == ExportRec(32, 0, 1, 2, 1, NID_SceOther, 5648, 8184, 8176)

ExportShapes ==
    {EXP_NONAME, EXP_SceKernel, EXP_ZERO_STRUCTSIZE, EXP_SHORT, EXP_RESERVED1,
     EXP_ATTR_8001, EXP_NAMED_NONAME}

IMP_SceKernel == ImportRec(52, 0, 2, 1, NID_SceKernel, 5632, 6144, 6176, 6208, 6240)
IMP_SceOther == ImportRec(36, 0, 1, 1, NID_SceOther, 5664, 6272, 6304, 6336, 6368)
\* bytes 10 00: neither 0x34 nor 0x24
IMP_UNKNOWN == ImportRec(16, 0, 1, 1, NID_SceOther, 5664, 6272, 6304, 6336, 6368)
\* bytes 34 01: structsize 0x34, reserved1 1
IMP_RESERVED1 == ImportRec(52, 1, 2, 1, NID_SceKernel, 5632, 6144, 6176, 6208, 6240)

ImportShapes == {IMP_SceKernel, IMP_SceOther, IMP_UNKNOWN, IMP_RESERVED1}

ZeroExportRec == ExportRec(0, 0, 0, 0, 0, <<0, 0>>, 0, 0, 0)
ZeroImportRec == ImportRec(0, 0, 0, 0, <<0, 0>>, 0, 0, 0, 0, 0)

ModInfo(export_top, export_end, import_top, import_end) ==
    [export_top |-> export_top, export_end |-> export_end,
     import_top |-> import_top, import_end |-> import_end]

ZeroModInfo == ModInfo(0, 0, 0, 0)

RECURSIVE StrideSum(_, _)
\* the bytes the records before the k-th take, each advancing by its structsize
StrideSum(recs, k) == IF k <= 1 THEN 0 ELSE StrideSum(recs, k - 1) + recs[k - 1].b0

SeqsUpTo(S, n) == UNION {[1..m -> S] : m \in 0..n}

\* File offset of segment 0 of the image, where the tables' offsets count from
Segment0Offset(img) == img.phdrs[1].p_offset

\* The record whose first byte is at file offset off (the zero record elsewhere)
raw_record_at(recs, table_off, off, zero) ==
    LET at == {k \in 1..Len(recs) : table_off + StrideSum(recs, k) = off}
    IN  IF at = {} THEN zero
        ELSE recs[CHOOSE k \in at : \A j \in at : k <= j]

raw_export_at(img, off) ==
    raw_record_at(img.exports, Segment0Offset(img) + img.modinfo.export_top, off,
                  ZeroExportRec)

raw_import_at(img, off) ==
    raw_record_at(img.imports, Segment0Offset(img) + img.modinfo.import_top, off,
                  ZeroImportRec)

\* The SceModuleInfo fields read at file offset off
raw_modinfo_at(img, off) == IF off = img.mi_off THEN img.modinfo ELSE ZeroModInfo

\* len(self.raw.read(off, n))
raw_read_len(img, off, n) ==
    IF off >= img.raw_len THEN 0
    ELSE IF off + n <= img.raw_len THEN n ELSE img.raw_len - off

----------------------------------------------------------------------------
(* The inputs: images, the user's answers and the functions the sweeps left *)

Func(start, size, type) == [start |-> start, size |-> size, type |-> type]

\* What linear sweep left in the view: the real entry function, functions laid
\* over the export table, over exported variables and over the data past the stubs
BaseSweep ==
    {Func(4112, 32, "auto"), Func(4600, 16, "auto"), Func(4352, 8, "auto"),
     Func(4500, 16, "auto"), Func(5640, 16, "auto"), Func(6400, 8, "auto")}

BaseImage ==
    [ei_class |-> ELFCLASS32, ei_data |-> ELFDATA2LSB,
     e_type |-> ET_SCE_RELEXEC, e_entry |-> <<0, 256>>,
     phdrs |-> <<Phdr(TRUE, PT_LOAD, 64, 4096)>>,
     raw_len |-> 3400, mi_off |-> 320,
     modinfo |-> ModInfo(512, 576, 1024, 1112),
     exports |-> <<EXP_NONAME, EXP_SceKernel>>,
     imports |-> <<IMP_SceKernel, IMP_SceOther>>,
     db_answer |-> "DB_MAIN", hdr_answer |-> "none",
     swept |-> BaseSweep]

SegmentOffset(k) == IF k = 1 THEN 64 ELSE 1024 * k
SegmentVaddr(k) == 4096 * k

\* Program-header tables of 1..MaxPhdrs entries, each loadable or not
PhdrTables(completes) ==
    UNION {
        { [k \in 1..n |-> Phdr(c[k], t[k], SegmentOffset(k), SegmentVaddr(k))] :
            t \in [1..n -> {PT_LOAD, 2}], c \in [1..n -> completes] } :
        n \in 1..MaxPhdrs }

\* Headers: every type code, segment index and offset against every table
HeaderImages ==
    { [BaseImage EXCEPT !.e_type = t, !.e_entry = <<16384 * s + h, l>>, !.phdrs = ph] :
        t \in {ET_SCE_EXEC, ET_SCE_RELEXEC, ET_SCE_ARMRELEXEC, 2, 65036},
        s \in 0..3, h \in {0, 1}, l \in {0, 256},
        ph \in PhdrTables({TRUE}) }

\* Program-header entries that read short
ShortPhdrImages == { [BaseImage EXCEPT !.phdrs = ph] : ph \in PhdrTables(BOOLEAN) }

IdentImages ==
    { [BaseImage EXCEPT !.ei_class = c, !.ei_data = d] : c \in {1, 2}, d \in {0, 1, 2} }

AnswerImages ==
    { [BaseImage EXCEPT !.db_answer = d, !.hdr_answer = h] :
        d \in {"cancel", "unreadable", "DB_MAIN", "DB_NO_MODULES", "DB_NONE"},
        h \in {"none", "unreadable", "ok"} }

\* Export tables: up to MaxExportRecs records, the region ending with the last
\* record or 32 bytes later
ExportImages ==
    { [BaseImage EXCEPT !.exports = recs,
                        !.modinfo.export_end = 512 + StrideSum(recs, Len(recs) + 1) + past] :
        recs \in SeqsUpTo(ExportShapes, MaxExportRecs), past \in {0, 32} }

ImportImages ==
    { [BaseImage EXCEPT !.imports = recs,
                        !.modinfo.import_end = 1024 + StrideSum(recs, Len(recs) + 1) + past] :
        recs \in SeqsUpTo(ImportShapes, MaxImportRecs), past \in {0, 52} }

\* Empty and inverted regions, with segment 0 at file offset 0 or 64
RegionImages ==
    { [BaseImage EXCEPT !.phdrs = <<Phdr(TRUE, PT_LOAD, p, 4096)>>, !.mi_off = p + 256,
                        !.modinfo = ModInfo(e[1], e[2], i[1], i[2])] :
        p \in {0, 64},
        e \in {<<0, 0>>, <<512, 512>>, <<512, 480>>, <<512, 0>>, <<512, 576>>},
        i \in {<<0, 0>>, <<1024, 1024>>, <<1024, 992>>, <<1024, 0>>, <<1024, 1112>>} }

\* Views the sweeps left empty, with the entry function only, and with a second
\* function laid over the imported variables
SweepImages ==
    { [BaseImage EXCEPT !.swept = f] :
        f \in {{}, {Func(4112, 32, "auto")}, BaseSweep \cup {Func(4502, 16, "auto")}} }

Images ==
    HeaderImages \cup ShortPhdrImages \cup IdentImages \cup AnswerImages
        \cup ExportImages \cup ImportImages \cup RegionImages \cup SweepImages

\* yaml.safe_load of the file the user picked
database_of(answer) ==
    CASE answer = "DB_MAIN" -> DB_MAIN
      [] answer = "DB_NO_MODULES" -> DB_NO_MODULES
      [] OTHER -> DB_NONE

\* The functions the SDK header declares (sdk_hdr.functions), and its types
SdkFunctions == {"sceFoo", "sceBar"}
SdkTypes == {"SceUID"}

----------------------------------------------------------------------------
(* State after VitaElf.__init__(bv) on a view the sweeps have run over *)

ProgramHeader(p_type, p_offset, p_vaddr) ==
    [p_type |-> p_type, p_offset |-> p_offset, p_vaddr |-> p_vaddr]

NewVitaElf ==
    [struct_endianness |-> "<",
     e_type |-> 0, e_entry |-> <<0, 0>>,
     program_headers |-> <<>>, base_addr |-> None,
     module_info_offset |-> None,
     has_module_info |-> FALSE, module_info |-> ZeroModInfo,
     nid_database |-> DB_NONE,
     sdk_hdr |-> "unset",
     has_module_start_addr |-> FALSE, module_start_addr |-> 0,
     offset |-> 0, end |-> 0]

Init ==
    /\ image \in Images
    /\ pc = "parse_elf"
    /\ run = 1
    /\ self = NewVitaElf
    /\ bv = [functions |-> image.swept, symbols |-> {}, data_vars |-> {},
             types |-> {}, entry_points |-> {}]
    /\ log = {}
    /\ exc = ""
    /\ emitted = {}
    /\ prev_emitted = {}
    /\ iters = [exports |-> 0, imports |-> 0]
    /\ workers = <<>>
    /\ main_queue = 0

----------------------------------------------------------------------------
(* The host model's operations (Binary Ninja's BinaryView) *)

Error(msg) == [level |-> "error", msg |-> msg]
Info(msg) == [level |-> "info", msg |-> msg]

Sym(type, addr, name) == [type |-> type, addr |-> addr, name |-> name]

new_function_size == 4      \* extent the host gives a function it is told to create

\* bv.get_function_at(addr) is not None
has_function_at(b, addr) == \E f \in b.functions : f.start = addr

\* bv.create_user_function(addr)
create_user_function(b, addr) ==
    [b EXCEPT !.functions = @ \cup {Func(addr, new_function_size, "user")}]

\* bv.get_functions_containing(addr), as a set
get_functions_containing(b, addr) ==
    {f \in b.functions : f.start <= addr /\ addr < f.start + f.size}

\* rem_func[0]: the host lists the containing functions by start address
first_function_containing(b, addr) ==
    CHOOSE f \in get_functions_containing(b, addr) :
        \A g \in get_functions_containing(b, addr) : f.start <= g.start

\* bv.remove_function(func)
remove_function(b, func) == [b EXCEPT !.functions = @ \ {func}]

\* bv.define_data_var(addr, type): one data variable per address
define_data_var(b, addr, type) ==
    [b EXCEPT !.data_vars =
        {d \in @ : d.addr # addr} \cup {[addr |-> addr, type |-> type]}]

\* structs.create_struct: define the type, drop the first function over addr
\* (log_info when there is none), lay the structure over addr.  w carries the
\* host model and the log.
create_struct(w, bn_type, addr) ==
    LET typed == [w.bv EXCEPT !.types = @ \cup {bn_type}]
        none == get_functions_containing(typed, addr) = {}
        cleared == IF none THEN typed
                   ELSE remove_function(typed, first_function_containing(typed, addr))
    IN  [w EXCEPT !.bv = define_data_var(cleared, addr, bn_type),
                  !.log = IF none
                          THEN @ \cup {Info("No function at " \o bn_type \o " location")}
                          ELSE @]

\* VitaElf.add_function_symbol
add_function_symbol(b, sdk_hdr, addr, name) ==
    LET made == IF has_function_at(b, addr) THEN b ELSE create_user_function(b, addr)
        func_type == IF sdk_hdr = "parsed" /\ name \in SdkFunctions
                     THEN "sdk" ELSE "void_variadic"
        func == CHOOSE f \in made.functions : f.start = addr
        typed == [made EXCEPT !.functions =
                     (@ \ {func}) \cup {[func EXCEPT !.type = func_type]}]
    IN  [typed EXCEPT !.symbols = @ \cup {Sym("ImportedFunctionSymbol", addr, name)}]

\* VitaElf.add_data_symbol
add_data_symbol(b, addr, name) ==
    LET named == [b EXCEPT !.symbols = @ \cup {Sym("DataSymbol", addr, name)}]
        cleared == IF get_functions_containing(named, addr) = {} THEN named
                   ELSE remove_function(named, first_function_containing(named, addr))
    IN  define_data_var(cleared, addr, "uint32_t")

\* __init__.is_symbols_injected
is_symbols_injected(b) == \E sym \in b.symbols : sym.name = "VitaELF_Injected"

----------------------------------------------------------------------------
(* The stages of load_vita_symbols.  A stage takes and returns
   w = [self, bv, log, emitted, exc]; exc # "" is the exception it raised. *)

RECURSIVE read_program_headers(_, _)
\* parse_elf's loop over range(e_phnum): a short read is skipped
read_program_headers(phdrs, i) ==
    IF i > Len(phdrs) THEN <<>>
    ELSE IF ~phdrs[i].complete THEN read_program_headers(phdrs, i + 1)
    ELSE <<ProgramHeader(phdrs[i].p_type, phdrs[i].p_offset, phdrs[i].p_vaddr)>>
             \o read_program_headers(phdrs, i + 1)

parse_elf(w, img) ==
    IF img.ei_class # ELFCLASS32
    THEN [w EXCEPT !.exc = "Unsupported ELF class (only 32-bit supported)"]
    ELSE IF img.ei_data \notin {ELFDATA2LSB, ELFDATA2MSB}
    THEN [w EXCEPT !.exc = "Unknown ELF data encoding"]
    ELSE
        LET program_headers == read_program_headers(img.phdrs, 1)
            logged == IF \E i \in 1..Len(img.phdrs) : ~img.phdrs[i].complete
                      THEN w.log \cup {Error("Incomplete program header")}
                      ELSE w.log
            parsed == [w.self EXCEPT
                          !.struct_endianness =
                              IF img.ei_data = ELFDATA2LSB THEN "<" ELSE ">",
                          !.e_type = img.e_type,
                          !.e_entry = img.e_entry,
                          !.program_headers = program_headers]
        IN  IF program_headers = <<>>
            THEN [w EXCEPT !.self = parsed, !.log = logged,
                           !.exc = "list index out of range"]
            ELSE [w EXCEPT !.self = [parsed EXCEPT !.base_addr = program_headers[1].p_vaddr],
                           !.log = logged]

\* get_module_info_offset without the PT_LOAD test on the indexed segment
get_module_info_offset_any_segment(e_type, e_entry, program_headers) ==
    IF e_type \in {ET_SCE_RELEXEC, ET_SCE_ARMRELEXEC, ET_SCE_EXEC}
    THEN IF seg_idx_of(e_entry) < Len(program_headers)
         THEN program_headers[seg_idx_of(e_entry) + 1].p_offset + seg_offset_of(e_entry)
         ELSE None
    ELSE None

\* VitaElf.get_module_info_offset: a file offset, or None
get_module_info_offset(e_type, e_entry, program_headers) ==
    IF e_type \in {ET_SCE_RELEXEC, ET_SCE_ARMRELEXEC, ET_SCE_EXEC}
    THEN LET seg_idx == seg_idx_of(e_entry)
             seg_offset == seg_offset_of(e_entry)
         IN  IF seg_idx < Len(program_headers)
             THEN LET ph == program_headers[seg_idx + 1]
                  IN  IF ph.p_type = PT_LOAD THEN ph.p_offset + seg_offset ELSE None
             ELSE None
    ELSE None

\* parse_sce_module_info falling back to the first segment when no offset is found
parse_sce_module_info_fallback(w, img) ==
    LET found == get_module_info_offset(w.self.e_type, w.self.e_entry,
                                        w.self.program_headers)
        module_info_offset ==
            IF found = None
            THEN w.self.program_headers[1].p_offset + seg_offset_of(w.self.e_entry)
            ELSE found
        located == [w.self EXCEPT !.module_info_offset = found]
        logged == IF found = None
                  THEN w.log \cup {Error("Failed to determine SceModuleInfo offset.")}
                  ELSE w.log
    IN  IF raw_read_len(img, module_info_offset, module_info_size) < module_info_size
        THEN [w EXCEPT !.self = located,
                       !.log = logged \cup
                                 {Error("Failed to read complete SceModuleInfo struct.")}]
        ELSE [w EXCEPT !.self = [located EXCEPT
                                    !.has_module_info = TRUE,
                                    !.module_info = raw_modinfo_at(img, module_info_offset)],
                       !.log = logged]

parse_sce_module_info(w, img) ==
    LET module_info_offset ==
            get_module_info_offset(w.self.e_type, w.self.e_entry, w.self.program_headers)
        located == [w.self EXCEPT !.module_info_offset = module_info_offset]
    IN  IF module_info_offset = None
        THEN [w EXCEPT !.self = located,
                       !.log = @ \cup {Error("Failed to determine SceModuleInfo offset.")}]
        ELSE IF raw_read_len(img, module_info_offset, module_info_size) < module_info_size
        THEN [w EXCEPT !.self = located,
                       !.log = @ \cup {Error("Failed to read complete SceModuleInfo struct.")}]
        ELSE [w EXCEPT !.self = [located EXCEPT
                                    !.has_module_info = TRUE,
                                    !.module_info = raw_modinfo_at(img, module_info_offset)]]

\* load_nid_database returning without a database when the prompt is cancelled
load_nid_database_no_raise(w, img) ==
    IF img.db_answer = "unreadable"
    THEN [w EXCEPT !.exc = "Failed to load NID database"]
    ELSE [w EXCEPT !.self.nid_database = database_of(img.db_answer)]

load_nid_database(w, img) ==
    IF img.db_answer = "cancel"
    THEN [w EXCEPT !.exc = "NID database YAML file is required"]
    ELSE IF img.db_answer = "unreadable"
    THEN [w EXCEPT !.exc = "Failed to load NID database"]
    ELSE [w EXCEPT !.self.nid_database = database_of(img.db_answer)]

load_headers(w, img) ==
    IF img.hdr_answer = "none"
    THEN [w EXCEPT !.self.sdk_hdr = "0",
                   !.log = @ \cup {Info("No header file specified.")}]
    ELSE IF img.hdr_answer = "unreadable"
    THEN [w EXCEPT !.log = @ \cup {Error("Failed to load header file")},
                   !.exc = "local variable 'header_content' referenced before assignment"]
    ELSE [w EXCEPT !.self.sdk_hdr = "parsed",
                   !.bv.types = @ \cup SdkTypes]

\* The walkers' loop test with the end included
loop_continues_inclusive(offset, end) == offset <= end

\* while exports_offset < exports_end / while imports_offset < imports_end
loop_continues(offset, end) == offset < end

----------------------------------------------------------------------------
(* The export walker *)

\* One add_function_symbol / add_data_symbol call: where the entry came from
\* (walker, record offset, library, identifier, entry-table value) and what was
\* passed on (kind, addr, name).
Fact(walker, rec_off, kind, addr, name, library_name, library_nid, nid, raw) ==
    [walker |-> walker, rec_off |-> rec_off, kind |-> kind, addr |-> addr,
     name |-> name, library_name |-> library_name, library_nid |-> library_nid,
     nid |-> nid, raw |-> raw]

\* export_function_entry with the address kept after the decrement
export_function_entry_kept_late(nid_database, library_nid, library_name, function_nid, function_addr) ==
    IF library_name = "NONAME" /\ function_nid = NID_MODULE_START
    THEN [function_name |-> "module_start", function_addr |-> function_addr - 1,
          is_module_start |-> TRUE, module_start_addr |-> function_addr - 1]
    ELSE [function_name |->
              lookup_nid_function(nid_database, library_nid, function_nid, library_name),
          function_addr |-> function_addr,
          is_module_start |-> FALSE, module_start_addr |-> 0]

\* What process_exports does with one readable function entry: the name and
\* address it emits, and the value it keeps in self.module_start_addr
export_function_entry(nid_database, library_nid, library_name, function_nid, function_addr) ==
    IF library_name = "NONAME" /\ function_nid = NID_MODULE_START
    THEN [function_name |-> "module_start", function_addr |-> function_addr - 1,
          is_module_start |-> TRUE, module_start_addr |-> function_addr]
    ELSE [function_name |->
              lookup_nid_function(nid_database, library_nid, function_nid, library_name),
          function_addr |-> function_addr,
          is_module_start |-> FALSE, module_start_addr |-> 0]

RECURSIVE export_functions(_, _, _, _)
\* for i in range(num_functions)
export_functions(w, rec, library_name, i) ==
    IF i >= rec.num_functions THEN w
    ELSE
        LET nid_data == bv_read4(rec.nid_table_addr + i * 4)
            entry_data == bv_read4(rec.entry_table_addr + i * 4)
        IN  IF ~nid_data[1] \/ ~entry_data[1]
            THEN export_functions(w, rec, library_name, i + 1)
            ELSE
                LET e == export_function_entry(w.self.nid_database, rec.library_nid,
                             library_name, nid_data[2], unpack_addr(entry_data[2]))
                    kept == IF e.is_module_start
                            THEN [w.self EXCEPT !.has_module_start_addr = TRUE,
                                                !.module_start_addr = e.module_start_addr]
                            ELSE w.self
                IN  export_functions(
                        [w EXCEPT
                            !.self = kept,
                            !.bv = add_function_symbol(@, w.self.sdk_hdr,
                                                       e.function_addr, e.function_name),
                            !.emitted = @ \cup
                                {Fact("export", w.self.offset, "function", e.function_addr,
                                      e.function_name, library_name, rec.library_nid,
                                      nid_data[2], unpack_addr(entry_data[2]))}],
                        rec, library_name, i + 1)

RECURSIVE export_variables(_, _, _, _)
\* for i in range(num_vars)
export_variables(w, rec, library_name, i) ==
    IF i >= rec.num_vars THEN w
    ELSE
        LET nid_data == bv_read4(rec.nid_table_addr + (rec.num_functions + i) * 4)
            entry_data == bv_read4(rec.entry_table_addr + (rec.num_functions + i) * 4)
            variable_nid == nid_data[2]
            variable_addr == unpack_addr(entry_data[2])
        IN  IF ~nid_data[1] \/ ~entry_data[1]
            THEN export_variables(w, rec, library_name, i + 1)
            ELSE IF library_name = "NONAME"
            THEN export_variables(
                     IF variable_nid = NID_MODULE_INFO
                     THEN create_struct(w, "SceModuleInfo_prx2arm", variable_addr)
                     ELSE IF variable_nid = NID_MODULE_PROC_PARAM
                     THEN create_struct(w, "SceProcessParam", variable_addr)
                     ELSE w,
                     rec, library_name, i + 1)
            ELSE
                LET variable_name == lookup_nid_variable(w.self.nid_database,
                                         rec.library_nid, variable_nid, library_name)
                IN  export_variables(
                        [w EXCEPT
                            !.bv = add_data_symbol(@, variable_addr, variable_name),
                            !.emitted = @ \cup
                                {Fact("export", w.self.offset, "data", variable_addr,
                                      variable_name, library_name, rec.library_nid,
                                      variable_nid, variable_addr)}],
                        rec, library_name, i + 1)

\* process_exports up to its loop: ret is set when it returns early
process_exports_enter(w) ==
    LET logged == [w EXCEPT !.log = @ \cup {Info("Parsing exports")}]
    IN  IF ~w.self.has_module_info
        THEN [logged EXCEPT !.exc = "'VitaElf' object has no attribute 'export_top'"]
        ELSE
            LET ph_offset == w.self.program_headers[1].p_offset
                exports_offset == w.self.module_info.export_top + ph_offset
                exports_end == w.self.module_info.export_end + ph_offset
            IN  IF exports_offset = 0 \/ exports_end = 0
                THEN [logged EXCEPT
                         !.log = @ \cup {Error("Export sections not defined in SceModuleInfo.")},
                         !.ret = TRUE]
                ELSE [logged EXCEPT !.self.offset = exports_offset,
                                    !.self.end = exports_end]

\* The library name of an export record
export_library_name(rec) ==
    IF rec.attribute = ATTR_NONAME /\ rec.library_name_addr = 0
    THEN "NONAME"
    ELSE read_string_at(rec.library_name_addr)

\* One iteration of process_exports' while loop: ret is set when it breaks
export_iteration(w, img) ==
    LET exports_offset == w.self.offset
        rec == raw_export_at(img, exports_offset)
        export_size == rec.b0 + 256 * rec.b1
        size == rec.b0
    IN  IF raw_read_len(img, exports_offset, 2) < 2
        THEN [w EXCEPT !.log = @ \cup {Error("Incomplete export size data")}, !.ret = TRUE]
        ELSE IF raw_read_len(img, exports_offset, export_size) < export_size
        THEN [w EXCEPT !.log = @ \cup {Error("Incomplete export data")}, !.ret = TRUE]
        ELSE IF raw_read_len(img, exports_offset, export_size) < export_struct_calcsize
        THEN [w EXCEPT !.log = @ \cup {Error("Incomplete export structure")}, !.ret = TRUE]
        ELSE
            LET ph_offset == w.self.program_headers[1].p_offset
                abs_addr == w.self.base_addr + exports_offset - ph_offset
                overlaid == create_struct(w, "SceLibEnt_prx2arm", abs_addr)
                library_name == export_library_name(rec)
                walked == export_variables(
                              export_functions(overlaid, rec, library_name, 0),
                              rec, library_name, 0)
            IN  [walked EXCEPT !.self.offset = exports_offset + size]

----------------------------------------------------------------------------
(* The import walker *)

\* import_struct_size with the compact layout as the default for other sizes
import_struct_size_default_compact(import_size) ==
    IF import_size = IMPORT_SIZE_PRX2ARM THEN IMPORT_SIZE_PRX2ARM
    ELSE IMPORT_SIZE_PRX2ARM_NEW

\* The layout process_imports picks for a 2-byte size field: import_struct_size,
\* or None for a size it does not know
import_struct_size(import_size) ==
    IF import_size = IMPORT_SIZE_PRX2ARM THEN IMPORT_SIZE_PRX2ARM
    ELSE IF import_size = IMPORT_SIZE_PRX2ARM_NEW THEN IMPORT_SIZE_PRX2ARM_NEW
    ELSE None

RECURSIVE import_functions(_, _, _, _)
\* for i in range(num_functions)
import_functions(w, rec, library_name, i) ==
    IF i >= rec.num_functions THEN w
    ELSE
        LET nid_data == bv_read4(rec.func_nid_table_addr + i * 4)
            entry_data == bv_read4(rec.func_entry_table_addr + i * 4)
            function_nid == nid_data[2]
            function_stub_addr == unpack_addr(entry_data[2])
        IN  IF ~nid_data[1] \/ ~entry_data[1]
            THEN import_functions(w, rec, library_name, i + 1)
            ELSE
                LET function_name == lookup_nid_function(w.self.nid_database,
                                         rec.library_nid, function_nid, library_name)
                IN  import_functions(
                        [w EXCEPT
                            !.bv = add_function_symbol(@, w.self.sdk_hdr,
                                                       function_stub_addr, function_name),
                            !.emitted = @ \cup
                                {Fact("import", w.self.offset, "function",
                                      function_stub_addr, function_name, library_name,
                                      rec.library_nid, function_nid, function_stub_addr)}],
                        rec, library_name, i + 1)

RECURSIVE import_variables(_, _, _, _)
\* for i in range(num_vars)
import_variables(w, rec, library_name, i) ==
    IF i >= rec.num_vars THEN w
    ELSE
        LET nid_data == bv_read4(rec.var_nid_table_addr + i * 4)
            entry_data == bv_read4(rec.var_entry_table_addr + i * 4)
            variable_nid == nid_data[2]
            variable_addr == unpack_addr(entry_data[2])
        IN  IF ~nid_data[1] \/ ~entry_data[1]
            THEN import_variables(w, rec, library_name, i + 1)
            ELSE
                LET variable_name == lookup_nid_variable(w.self.nid_database,
                                         rec.library_nid, variable_nid, library_name)
                IN  import_variables(
                        [w EXCEPT
                            !.bv = add_data_symbol(@, variable_addr, variable_name),
                            !.emitted = @ \cup
                                {Fact("import", w.self.offset, "data", variable_addr,
                                      variable_name, library_name, rec.library_nid,
                                      variable_nid, variable_addr)}],
                        rec, library_name, i + 1)

\* process_imports up to its loop: ret is set when it returns early
process_imports_enter(w) ==
    LET logged == [w EXCEPT !.log = @ \cup {Info("Parsing imports")}]
    IN  IF ~w.self.has_module_info
        THEN [logged EXCEPT !.exc = "'VitaElf' object has no attribute 'import_top'"]
        ELSE
            LET ph_offset == w.self.program_headers[1].p_offset
                imports_offset == w.self.module_info.import_top + ph_offset
                imports_end == w.self.module_info.import_end + ph_offset
            IN  IF imports_offset = 0 \/ imports_end = 0
                THEN [logged EXCEPT
                         !.log = @ \cup {Error("Import sections not defined in SceModuleInfo.")},
                         !.ret = TRUE]
                ELSE [logged EXCEPT !.self.offset = imports_offset,
                                    !.self.end = imports_end]

\* One iteration of process_imports' while loop: ret is set when it breaks
import_iteration(w, img) ==
    LET imports_offset == w.self.offset
        rec == raw_import_at(img, imports_offset)
        import_size == rec.b0 + 256 * rec.b1
        size == rec.b0
    IN  IF raw_read_len(img, imports_offset, 2) < 2
        THEN [w EXCEPT !.log = @ \cup {Error("Incomplete import size data")}, !.ret = TRUE]
        ELSE IF import_struct_size(import_size) = None
        THEN [w EXCEPT !.log = @ \cup {Error("Unknown import size")}, !.ret = TRUE]
        ELSE IF raw_read_len(img, imports_offset, import_size) < import_size
        THEN [w EXCEPT !.log = @ \cup {Error("Incomplete import data")}, !.ret = TRUE]
        ELSE
            LET ph_offset == w.self.program_headers[1].p_offset
                abs_addr == w.self.base_addr + imports_offset - ph_offset
                overlaid == create_struct(w,
                                IF import_struct_size(import_size) = IMPORT_SIZE_PRX2ARM
                                THEN "SceLibStub_prx2arm" ELSE "SceLibStub_prx2arm_new",
                                abs_addr)
                library_name == read_string_at(rec.library_name_addr)
                walked == import_variables(
                              import_functions(overlaid, rec, library_name, 0),
                              rec, library_name, 0)
            IN  [walked EXCEPT !.self.offset = imports_offset + size]

----------------------------------------------------------------------------
(* The last stages *)

\* self.bv.add_entry_point(self.module_start_addr)
add_entry_point(w) ==
    IF ~w.self.has_module_start_addr
    THEN [w EXCEPT !.exc = "'VitaElf' object has no attribute 'module_start_addr'"]
    ELSE [w EXCEPT !.bv.entry_points = @ \cup {w.self.module_start_addr}]

\* VitaElf.clean_data_segs
clean_data_segs(w) ==
    LET end_imports == w.self.base_addr + w.self.module_info.import_end
    IN  [w EXCEPT !.bv.functions = {func \in @ : ~(func.start > end_imports)}]

----------------------------------------------------------------------------
(* Actions: load_vita_symbols, one step per stage and per loop iteration *)

MaxSpin == 2    \* loop iterations followed beyond one per laid-out record

Work == [self |-> self, bv |-> bv, log |-> log, emitted |-> emitted,
         exc |-> "", ret |-> FALSE]

Commit(w) ==
    /\ self' = w.self
    /\ bv' = w.bv
    /\ log' = w.log
    /\ emitted' = w.emitted
    /\ exc' = w.exc

\* A stage that runs to its end, or raises
Stage(at, w, next) ==
    /\ pc = at
    /\ Commit(w)
    /\ pc' = IF w.exc # "" THEN "raised" ELSE next
    /\ UNCHANGED <<image, run, prev_emitted, iters, workers, main_queue>>

ParseElf == Stage("parse_elf", parse_elf(Work, image), "parse_sce_module_info")

ParseSceModuleInfo ==
    Stage("parse_sce_module_info", parse_sce_module_info(Work, image), "load_nid_database")

LoadNidDatabase ==
    Stage("load_nid_database", load_nid_database(Work, image), "load_headers")

LoadHeaders == Stage("load_headers", load_headers(Work, image), "process_exports")

ProcessExports ==
    /\ pc = "process_exports"
    /\ LET w == process_exports_enter(Work)
       IN  /\ Commit(w)
           /\ pc' = IF w.exc # "" THEN "raised"
                    ELSE IF w.ret THEN "process_imports" ELSE "exports_loop"
    /\ UNCHANGED <<image, run, prev_emitted, iters, workers, main_queue>>

\* while exports_offset < exports_end: one record
ExportRecord ==
    /\ pc = "exports_loop"
    /\ loop_continues(self.offset, self.end)
    /\ iters.exports < MaxExportRecs + MaxSpin
    /\ LET w == export_iteration(Work, image)
       IN  /\ Commit(w)
           /\ pc' = IF w.ret THEN "process_imports" ELSE "exports_loop"
    /\ iters' = [iters EXCEPT !.exports = @ + 1]
    /\ UNCHANGED <<image, run, prev_emitted, workers, main_queue>>

\* the loop condition fails
ExportsEnd ==
    /\ pc = "exports_loop"
    /\ ~loop_continues(self.offset, self.end)
    /\ pc' = "process_imports"
    /\ UNCHANGED <<image, run, self, bv, log, exc, emitted, prev_emitted, iters, workers, main_queue>>

ProcessImports ==
    /\ pc = "process_imports"
    /\ LET w == process_imports_enter(Work)
       IN  /\ Commit(w)
           /\ pc' = IF w.exc # "" THEN "raised"
                    ELSE IF w.ret THEN "add_entry_point" ELSE "imports_loop"
    /\ UNCHANGED <<image, run, prev_emitted, iters, workers, main_queue>>

\* while imports_offset < imports_end: one record
ImportRecord ==
    /\ pc = "imports_loop"
    /\ loop_continues(self.offset, self.end)
    /\ iters.imports < MaxImportRecs + MaxSpin
    /\ LET w == import_iteration(Work, image)
       IN  /\ Commit(w)
           /\ pc' = IF w.ret THEN "add_entry_point" ELSE "imports_loop"
    /\ iters' = [iters EXCEPT !.imports = @ + 1]
    /\ UNCHANGED <<image, run, prev_emitted, workers, main_queue>>

ImportsEnd ==
    /\ pc = "imports_loop"
    /\ ~loop_continues(self.offset, self.end)
    /\ pc' = "add_entry_point"
    /\ UNCHANGED <<image, run, self, bv, log, exc, emitted, prev_emitted, iters, workers, main_queue>>

AddEntryPoint == Stage("add_entry_point", add_entry_point(Work), "clean_data_segs")

\* clean_data_segs, then log_info("Symbols added successfully.")
CleanDataSegs ==
    /\ pc = "clean_data_segs"
    /\ LET w == clean_data_segs(Work)
       IN  Commit([w EXCEPT !.log = @ \cup {Info("Symbols added successfully.")}])
    /\ pc' = "done"
    /\ UNCHANGED <<image, run, prev_emitted, iters, workers, main_queue>>

\* except Exception as e: log_error(f"Error adding symbols: {e}")
CatchException ==
    /\ pc = "raised"
    /\ log' = log \cup {Error("Error adding symbols: " \o exc)}
    /\ exc' = ""
    /\ pc' = "failed"
    /\ UNCHANGED <<image, run, self, bv, emitted, prev_emitted, iters, workers, main_queue>>

\* The command is invoked again on the same view: a new VitaElf(bv), the same
\* file and the same answers
Reinvoke ==
    /\ pc \in {"done", "failed"}
    /\ run < MaxRuns
    /\ run' = run + 1
    /\ pc' = "parse_elf"
    /\ self' = NewVitaElf
    /\ log' = {}
    /\ exc' = ""
    /\ prev_emitted' = emitted
    /\ emitted' = {}
    /\ iters' = [exports |-> 0, imports |-> 0]
    /\ UNCHANGED <<image, bv, workers, main_queue>>

Next ==
    \/ ParseElf
    \/ ParseSceModuleInfo
    \/ LoadNidDatabase
    \/ LoadHeaders
    \/ ProcessExports
    \/ ExportRecord
    \/ ExportsEnd
    \/ ProcessImports
    \/ ImportRecord
    \/ ImportsEnd
    \/ AddEntryPoint
    \/ CleanDataSegs
    \/ CatchException
    \/ Reinvoke

Spec == Init /\ [][Next]_vars

----------------------------------------------------------------------------
(* Properties *)

\* The three executable-type codes the locator recognizes: 0xFE00, 0xFE04, 0xFFA5
RecognizedTypes == {65024, 65028, 65445}

\* Bits 31..30 of a word and its low 30 bits, from the halves
TopTwoBits(word) == CHOOSE s \in 0..3 : 16384 * s <= word[1] /\ word[1] < 16384 * (s + 1)
LowThirtyBits(word) == (word[1] - 16384 * TopTwoBits(word)) * 65536 + word[2]

\* C1: once parse_sce_module_info has called get_module_info_offset, the offset
\* it got is program_headers[seg].p_offset + (e_entry & 0x3FFFFFFF), seg being
\* e_entry's top two bits, exactly when e_type is 0xFE00, 0xFE04 or 0xFFA5, seg is
\* below the number of parsed program headers and that header's type is 1
\* (PT_LOAD); in every other case it is None, which is no offset.
C1_ModuleInfoOffset ==
    pc = "load_nid_database" =>
        LET seg == TopTwoBits(image.e_entry)
            parsed == self.program_headers
            found == /\ image.e_type \in RecognizedTypes
                     /\ seg < Len(parsed)
                     /\ parsed[seg + 1].p_type = 1
        IN  IF found
            THEN /\ self.module_info_offset =
                        parsed[seg + 1].p_offset + LowThirtyBits(image.e_entry)
                 /\ self.module_info_offset >= 0
            ELSE self.module_info_offset = None

\* C1 witness: the offset was found in segment 2, with offset bits above bit 15
C1_Witness ==
    /\ pc = "load_nid_database"
    /\ TopTwoBits(image.e_entry) = 2
    /\ image.e_entry[1] # 32768
    /\ self.module_info_offset # None

\* A function entry the export walker takes for the module's entry function
IsModuleStartFact(f) ==
    /\ f.walker = "export"
    /\ f.kind = "function"
    /\ f.library_name = "NONAME"
    /\ f.nid = <<37724, 53654>>

\* C2: every NONAME export function entry with identifier 0x935CD196 and
\* entry-table value A is emitted as the function symbol "module_start" at A - 1,
\* the value kept in module_start_addr is such an entry's un-adjusted A, and every
\* other function entry is emitted at its entry-table value.
C2_ModuleStart ==
    /\ \A f \in emitted :
          f.kind = "function" =>
              IF IsModuleStartFact(f)
              THEN /\ f.name = "module_start"
                   /\ f.addr = f.raw - 1
                   /\ Sym("ImportedFunctionSymbol", f.raw - 1, "module_start") \in bv.symbols
              ELSE f.addr = f.raw
    /\ (\E f \in emitted : IsModuleStartFact(f)) => self.has_module_start_addr
    /\ self.has_module_start_addr =>
          \E f \in emitted : IsModuleStartFact(f) /\ self.module_start_addr = f.raw

\* C2 witness: the run ended after a module_start entry with table value 4113
C2_Witness ==
    /\ pc = "done"
    /\ \E f \in emitted : IsModuleStartFact(f) /\ f.raw = 4113 /\ f.addr = 4112
    /\ self.module_start_addr = 4113

\* The 2-byte size field of the import record under the import walker's cursor
SizeFieldAtCursor ==
    raw_import_at(image, self.offset).b0 + 256 * raw_import_at(image, self.offset).b1

AtUnknownImportSize ==
    /\ pc = "imports_loop"
    /\ self.offset < self.end
    /\ raw_read_len(image, self.offset, 2) = 2
    /\ SizeFieldAtCursor \notin {52, 36}

\* File offset of the k-th laid-out import record
ImportRecordOffset(k) ==
    Segment0Offset(image) + image.modinfo.import_top + StrideSum(image.imports, k)

\* C3: an import record whose 2-byte size is neither 0x34 nor 0x24 ends the import
\* walk in that step without an exception: nothing is emitted, the host model is
\* left as it was, the error is logged; and no import fact ever comes from such a
\* record or from one laid out after it.
C3_UnknownImportSize ==
    /\ [][AtUnknownImportSize =>
            /\ pc' = "add_entry_point"
            /\ exc' = ""
            /\ emitted' = emitted
            /\ bv' = bv
            /\ Error("Unknown import size") \in log']_vars
    /\ [](\A f \in emitted :
            f.walker = "import"
            => \A k \in 1..Len(image.imports) :
                  ImportRecordOffset(k) <= f.rec_off =>
                      image.imports[k].b0 + 256 * image.imports[k].b1 \in {52, 36})

\* C3 witness: the walk stopped at an unknown size after an earlier import record
\* and the export walker had emitted symbols
C3_Witness ==
    /\ pc = "add_entry_point"
    /\ Error("Unknown import size") \in log
    /\ \E f \in emitted : f.walker = "import"
    /\ \E f \in emitted : f.walker = "export"
    /\ \A f \in emitted : Sym(IF f.kind = "function" THEN "ImportedFunctionSymbol"
                              ELSE "DataSymbol", f.addr, f.name) \in bv.symbols

\* The entries of a database's mappings of one kind, as <<module, library, entry>>
\* positions in iteration order
EntryPositions(db, kind) ==
    UNION { UNION { { <<k, j, i>> :
                        i \in 1..Len(IF kind = "functions"
                                     THEN db.modules[k].libraries[j].functions
                                     ELSE db.modules[k].libraries[j].variables) } :
                    j \in 1..Len(db.modules[k].libraries) } :
            k \in 1..Len(db.modules) }

EntryAt(db, kind, t) ==
    IF kind = "functions"
    THEN db.modules[t[1]].libraries[t[2]].functions[t[3]]
    ELSE db.modules[t[1]].libraries[t[2]].variables[t[3]]

\* The entries that map some name to id under a library whose nid is library_id
MatchingEntries(db, kind, library_id, id) ==
    IF db.truthy /\ db.has_modules
    THEN { t \in EntryPositions(db, kind) :
             /\ db.modules[t[1]].libraries[t[2]].nid = library_id
             /\ EntryAt(db, kind, t)[2] = id }
    ELSE {}

ComesBefore(a, b) ==
    \/ a[1] < b[1]
    \/ a[1] = b[1] /\ a[2] < b[2]
    \/ a[1] = b[1] /\ a[2] = b[2] /\ a[3] <= b[3]

\* The identifiers of the images, as 8 uppercase hex digits
HexLiteral(nid) ==
    CASE nid = <<57005, 48879>> -> "DEADBEEF"
      [] nid = <<4112, 8208>> -> "10102010"
      [] nid = <<192, 65518>> -> "00C0FFEE"
      [] nid = <<51966, 47806>> -> "CAFEBABE"
      [] nid = <<65261, 64206>> -> "FEEDFACE"
      [] nid = <<2989, 61453>> -> "0BADF00D"
      [] nid = <<24589, 57005>> -> "600DDEAD"
      [] nid = <<37724, 53654>> -> "935CD196"
      [] nid = <<27682, 9402>> -> "6C2224BA"
      [] nid = <<28923, 41447>> -> "70FBA1E7"
      [] nid = <<0, 0>> -> "00000000"

\* The name the resolver owes for (library_id, id, library_name)
OwedName(db, kind, library_id, id, library_name) ==
    LET matches == MatchingEntries(db, kind, library_id, id)
    IN  IF matches = {}
        THEN library_name \o "_" \o HexLiteral(id)
        ELSE EntryAt(db, kind,
                     CHOOSE t \in matches : \A u \in matches : ComesBefore(t, u))[1]

\* C4: every name lookup_nid_function / lookup_nid_variable returned is the name
\* of the first entry, in database iteration order, that maps it to the wanted
\* identifier under a library whose nid is the wanted library id; when there is no
\* such entry (also when the identifier is mapped only under another library nid)
\* it is library_name, "_" and the identifier as 8 uppercase hex digits.
C4_LookupNid ==
    \A f \in emitted :
        ~IsModuleStartFact(f) =>
            f.name = OwedName(database_of(image.db_answer),
                              IF f.kind = "function" THEN "functions" ELSE "variables",
                              f.library_nid, f.nid, f.library_name)

\* C4 witness: one export record resolved an identifier mapped twice under its library
\* nid, one mapped only under another library nid, and one mapped nowhere
C4_Witness ==
    /\ image.db_answer = "DB_MAIN"
    /\ \E f \in emitted : f.nid = <<192, 65518>> /\ f.name = "sceFoo"
    /\ \E f \in emitted : f.nid = <<4112, 8208>> /\ f.name = "SceKernel_10102010"
    /\ \E f \in emitted : f.nid = <<57005, 48879>> /\ f.name = "SceKernel_DEADBEEF"
    /\ \E f \in emitted : f.kind = "data" /\ f.nid = <<2989, 61453>> /\ f.name = "sceVar"

\* C5: after every run that ends with the success message the view holds the
\* marker symbol "VitaELF_Injected", so that is_symbols_injected is true.
C5_MarkerAfterSuccess == pc = "done" => is_symbols_injected(bv)

NotFoundLogged == Error("Failed to determine SceModuleInfo offset.") \in log

\* C6: once get_module_info_offset has returned None, the run emits no function
\* or data symbol, no walker begins a record, no function is retracted and no
\* overlay is laid; the run ends in the failure that log_error reports, never in
\* success.
C6_OffsetNotFound ==
    /\ [](NotFoundLogged =>
            /\ self.module_info_offset = None
            /\ emitted = {}
            /\ iters.exports = 0 /\ iters.imports = 0
            /\ pc \in {"load_nid_database", "load_headers", "process_exports",
                       "raised", "failed"}
            /\ pc = "failed" => \E l \in log :
                  /\ l.level = "error"
                  /\ l.msg \in {"Error adding symbols: NID database YAML file is required",
                                "Error adding symbols: Failed to load NID database",
                                "Error adding symbols: local variable 'header_content' referenced before assignment",
                                "Error adding symbols: 'VitaElf' object has no attribute 'export_top'"})
    /\ [][NotFoundLogged =>
            /\ bv'.symbols = bv.symbols
            /\ bv'.functions = bv.functions
            /\ bv'.data_vars = bv.data_vars
            /\ bv'.entry_points = bv.entry_points]_vars

\* C6 witness: the offset was not found with a database and no header chosen, and
\* the run has ended
C6_Witness ==
    /\ NotFoundLogged
    /\ pc = "failed"
    /\ image.db_answer = "DB_MAIN"
    /\ Error("Error adding symbols: 'VitaElf' object has no attribute 'export_top'") \in log

\* What the stages raise
ExceptionMessages ==
    {"Unsupported ELF class (only 32-bit supported)", "Unknown ELF data encoding",
     "list index out of range", "NID database YAML file is required",
     "Failed to load NID database",
     "local variable 'header_content' referenced before assignment",
     "'VitaElf' object has no attribute 'export_top'",
     "'VitaElf' object has no attribute 'import_top'",
     "'VitaElf' object has no attribute 'module_start_addr'"}

ErrorReported == \E e \in ExceptionMessages : Error("Error adding symbols: " \o e) \in log
SuccessLogged == Info("Symbols added successfully.") \in log

\* Every stage ran to its end on this image
NoStageRaised ==
    /\ image.ei_class = 1
    /\ image.ei_data \in {1, 2}
    /\ \E i \in 1..Len(image.phdrs) : image.phdrs[i].complete
    /\ image.db_answer \notin {"cancel", "unreadable"}
    /\ image.hdr_answer # "unreadable"
    /\ self.has_module_info
    /\ self.has_module_start_addr

\* C7: an exception a stage raises is in flight only until load_vita_symbols'
\* handler takes it; the run then ends with the error reported through log_error
\* and without the success message; the success message is logged only in a run
\* in which no stage raised, and such a run reports no error of this kind.
C7_ErrorsCaught ==
    /\ exc # "" => pc = "raised" /\ exc \in ExceptionMessages
    /\ pc = "failed" => ErrorReported /\ ~SuccessLogged
    /\ pc = "done" => SuccessLogged /\ ~ErrorReported
    /\ SuccessLogged => pc = "done" /\ NoStageRaised
    /\ pc \notin {"raised", "failed"} => ~ErrorReported

\* C7 witness: the database prompt was cancelled and the run ended reporting it
C7_Witness ==
    /\ pc = "failed"
    /\ exc = ""
    /\ Error("Error adding symbols: NID database YAML file is required") \in log

\* The (address, kind, name) facts of a set of emitter calls
Resolved(facts) == {[addr |-> f.addr, kind |-> f.kind, name |-> f.name] : f \in facts}

\* C8: a run of the pipeline on a view that an earlier run has already
\* changed ends with the same resolved (address, kind, name) facts as the run
\* before it.
C8_SameFactsOnRerun ==
    (run > 1 /\ pc \in {"done", "failed"}) => Resolved(emitted) = Resolved(prev_emitted)

\* C8 witness: the second run ended in success, having resolved database names and
\* default names while the first run's symbols were in the view
C8_Witness ==
    /\ run = 2
    /\ pc = "done"
    /\ \E f \in emitted : f.name = "SceKernel_DEADBEEF"
    /\ \E f \in emitted : f.name = "sceFoo"
    /\ Sym("ImportedFunctionSymbol", 6400, "SceKernel_DEADBEEF") \in bv.symbols

\* The walkers have returned
ExportWalkOver ==
    pc \in {"process_imports", "imports_loop", "add_entry_point", "clean_data_segs", "done"}
ImportWalkOver == pc \in {"add_entry_point", "clean_data_segs", "done"}

ExportRegionEmpty == self.module_info.export_top >= self.module_info.export_end
ImportRegionEmpty == self.module_info.import_top >= self.module_info.import_end

ExportErrors ==
    {"Export sections not defined in SceModuleInfo.", "Incomplete export size data",
     "Incomplete export data", "Incomplete export structure"}
ImportErrors ==
    {"Import sections not defined in SceModuleInfo.", "Incomplete import size data",
     "Unknown import size", "Incomplete import data"}

\* A walk that began no record, emitted nothing and laid no overlay
NothingWalked(walker, count, overlays) ==
    /\ count = 0
    /\ \A f \in emitted : f.walker # walker
    /\ \A d \in bv.data_vars : d.type \notin overlays
    /\ exc = ""

\* C9 as stated: a walk over an empty (top == end) or inverted (top > end) region
\* begins no record, emits no symbol, lays no overlay and reports no error,
\* whatever top, end and the first program header's file offset are.
C9_EmptyRegionSilent ==
    /\ (ExportWalkOver /\ ExportRegionEmpty) =>
          /\ NothingWalked("export", iters.exports, {"SceLibEnt_prx2arm"})
          /\ \A m \in ExportErrors : Error(m) \notin log
    /\ (ImportWalkOver /\ ImportRegionEmpty) =>
          /\ NothingWalked("import", iters.imports,
                           {"SceLibStub_prx2arm", "SceLibStub_prx2arm_new"})
          /\ \A m \in ImportErrors : Error(m) \notin log

\* C9 as amended: a walk over an empty or inverted region begins no record, emits
\* no symbol, lays no overlay and raises nothing; the one error it can report is
\* "sections not defined", and it reports it exactly when end plus the first
\* program header's file offset is zero.
C9_EmptyRegion ==
    /\ (ExportWalkOver /\ ExportRegionEmpty) =>
          /\ NothingWalked("export", iters.exports, {"SceLibEnt_prx2arm"})
          /\ \A m \in ExportErrors : Error(m) \in log =>
                m = "Export sections not defined in SceModuleInfo."
          /\ Error("Export sections not defined in SceModuleInfo.") \in log
                <=> self.module_info.export_end + self.program_headers[1].p_offset = 0
    /\ (ImportWalkOver /\ ImportRegionEmpty) =>
          /\ NothingWalked("import", iters.imports,
                           {"SceLibStub_prx2arm", "SceLibStub_prx2arm_new"})
          /\ \A m \in ImportErrors : Error(m) \in log =>
                m = "Import sections not defined in SceModuleInfo."
          /\ Error("Import sections not defined in SceModuleInfo.") \in log
                <=> self.module_info.import_end + self.program_headers[1].p_offset = 0

\* C9 witness: both walks are over, the export region inverted at a nonzero file
\* offset and the import region empty at file offset zero
C9_Witness ==
    /\ pc = "add_entry_point"
    /\ self.module_info.export_top > self.module_info.export_end
    /\ self.module_info.export_end + self.program_headers[1].p_offset > 0
    /\ self.module_info.import_top = self.module_info.import_end
    /\ self.module_info.import_end + self.program_headers[1].p_offset = 0

\* C10: every iteration of the export walker's loop and of the import walker's
\* loop that does not leave the loop moves the cursor forward, so that no loop
\* can go on for ever.
C10_WalkersAdvance ==
    [][/\ (pc = "exports_loop" /\ pc' = "exports_loop") => self'.offset > self.offset
       /\ (pc = "imports_loop" /\ pc' = "imports_loop") => self'.offset > self.offset]_vars

----------------------------------------------------------------------------
(* C11: the export walker's stride *)

\* The 2-byte little-endian value read at the export walker's cursor, which is
\* the length of the read that follows
ExportSizeAtCursor ==
    raw_export_at(image, self.offset).b0 + 256 * raw_export_at(image, self.offset).b1

\* C11: every export record that is processed to its end moves the cursor by
\* exactly the 2-byte value read at its start (the record's read length),
\* whatever the two bytes are.
C11_StrideIsSizeRead ==
    [][(pc = "exports_loop" /\ pc' = "exports_loop")
          => self'.offset = self.offset + ExportSizeAtCursor]_vars

----------------------------------------------------------------------------
(* C12: the NONAME library *)

\* Bit 0x8000 of an attribute field
HasNonameBit(attribute) == (attribute \div ATTR_NONAME) % 2 = 1

\* C12: every entry emitted from an export record carries the library name
\* "NONAME" when the record's attribute has bit 0x8000 set and its name address
\* is zero, whatever the other attribute bits, and otherwise the string read at
\* the name address.
C12_NonameByBit ==
    \A f \in emitted :
        f.walker = "export" =>
            LET rec == raw_export_at(image, f.rec_off)
            IN  f.library_name =
                    IF HasNonameBit(rec.attribute) /\ rec.library_name_addr = 0
                    THEN "NONAME"
                    ELSE read_string_at(rec.library_name_addr)

----------------------------------------------------------------------------
(* C13: the variables of the NONAME library *)

\* The name owed to a NONAME variable identifier, "" when any name will do
NonameVariableName(variable_nid) ==
    IF variable_nid = NID_MODULE_INFO THEN "module_info"
    ELSE IF variable_nid = NID_MODULE_PROC_PARAM THEN "module_proc_param"
    ELSE ""

\* C13: when the export walker has processed a NONAME record, every variable
\* entry of it whose identifier and address both read has a data symbol at its
\* address, named "module_info" for 0x6C2224BA and "module_proc_param" for
\* 0x70FBA1E7.
C13_NonameVariableSymbols ==
    [][(/\ pc = "exports_loop" /\ pc' = "exports_loop"
        /\ raw_export_at(image, self.offset).attribute = ATTR_NONAME
        /\ raw_export_at(image, self.offset).library_name_addr = 0)
       => LET rec == raw_export_at(image, self.offset)
          IN  \A i \in 0..(rec.num_vars - 1) :
                LET nid_data == bv_read4(rec.nid_table_addr + (rec.num_functions + i) * 4)
                    entry_data == bv_read4(rec.entry_table_addr + (rec.num_functions + i) * 4)
                IN  (nid_data[1] /\ entry_data[1]) =>
                        \E sym \in bv'.symbols :
                            /\ sym.type = "DataSymbol"
                            /\ sym.addr = unpack_addr(entry_data[2])
                            /\ NonameVariableName(nid_data[2]) \in {"", sym.name}]_vars

----------------------------------------------------------------------------
(* C14: the cleanup after the walkers *)

\* base_addr + import_end, the bound of clean_data_segs
CleanupBound == self.base_addr + self.module_info.import_end

\* The run is over and both walkers returned without raising: it ended with the
\* success message, or with the exception of the entry-point registration that
\* follows the walkers
RunOverAfterWalkers ==
    \/ pc = "done"
    \/ /\ pc = "failed"
       /\ Error("Error adding symbols: 'VitaElf' object has no attribute 'module_start_addr'")
             \in log

\* C14: a run in which both walkers returned without a fatal error ends with no
\* function starting beyond base_addr + import_end in the view, and the cleanup
\* step removes those functions and no other.
C14_CleanupAfterWalkers ==
    /\ [](RunOverAfterWalkers => \A func \in bv.functions : func.start <= CleanupBound)
    /\ [][(pc = "clean_data_segs" /\ pc' = "done")
             => bv'.functions = {func \in bv.functions : func.start <= CleanupBound}]_vars

----------------------------------------------------------------------------
(* C18: program-header entries that read short *)

IsComplete(ph) == ph.complete

\* The entries of a table that read in full, in table order, as parse_elf keeps them
KeptEntries(phdrs) ==
    LET kept == SelectSeq(phdrs, IsComplete)
    IN  [k \in 1..Len(kept) |->
            ProgramHeader(kept[k].p_type, kept[k].p_offset, kept[k].p_vaddr)]

\* C18: whichever program-header entries read short (entry 0 and all of them
\* included), parse_elf of a 32-bit image with a known encoding raises nothing
\* and ends with the table of the entries that read in full, in table order.
C18_ShortEntriesNotFatal ==
    [][(/\ pc = "parse_elf"
        /\ image.ei_class = ELFCLASS32
        /\ image.ei_data \in {ELFDATA2LSB, ELFDATA2MSB})
       => /\ pc' = "parse_sce_module_info"
          /\ exc' = ""
          /\ self'.program_headers = KeptEntries(image.phdrs)]_vars

----------------------------------------------------------------------------
(* C19: add_data_symbol and the functions over its address *)

\* The data facts a step of a walker emitted
NewDataFacts == {f \in emitted' \ emitted : f.kind = "data"}

\* C19: once a walker's step has emitted data symbols, each of them is in the
\* view with a data variable at its address, and no function containing the
\* address of the last of them is left, however many functions overlapped it
\* and also when none did.
C19_DataSymbolRetractsAll ==
    [][\A f \in NewDataFacts :
          /\ Sym("DataSymbol", f.addr, f.name) \in bv'.symbols
          /\ \E d \in bv'.data_vars : d.addr = f.addr
          /\ get_functions_containing(bv', f.addr) = {}]_vars

----------------------------------------------------------------------------
(* sweep_before_load: the command "VitaELF: Inject Symbols".  It starts a     *)
(* thread running n_linearsweep, which sweeps until the function count stops  *)
(* changing and then hands load_vita_symbols to the main thread.              *)

MaxInvocations == 2     \* invocations of the command on one view
MaxFound == 1           \* functions one sweep iteration adds at most

n_max == 5              \* max linear sweep runs

\* The loop test with the cap included
loop_test_inclusive(i) == i <= n_max

\* while i < n_max
loop_test(i) == i < n_max

\* The break test answering for a count that dropped only
count_unchanged_only_when_dropped(cur_func_cnt, func_cnt) == cur_func_cnt < func_cnt

\* if cur_func_cnt == func_cnt
count_unchanged(cur_func_cnt, func_cnt) == cur_func_cnt = func_cnt

\* The locals of n_linearsweep at its start; sweeps and dispatches count what the
\* thread has done
NewWorker == [at |-> "while", i |-> 0, func_cnt |-> 0, sweeps |-> 0, dispatches |-> 0]

\* Functions of the image that one more sweep can find: those not in the view
SweepCandidates == {f \in image.swept : ~has_function_at(bv, f.start)}

\* The n candidates with the lowest start addresses
FirstCandidates(n) ==
    {f \in SweepCandidates : Cardinality({g \in SweepCandidates : g.start < f.start}) < n}

\* Is load_vita_symbols running on the main thread?
MainThreadIdle == pc \in {"idle", "done", "failed"}

\* Images the command is invoked on
SweepInputs ==
    {BaseImage, [BaseImage EXCEPT !.db_answer = "cancel", !.swept = {}]}

SweepInit ==
    /\ image \in SweepInputs
    /\ pc = "idle"
    /\ run = 0
    /\ self = NewVitaElf
    /\ bv = [functions |-> {}, symbols |-> {}, data_vars |-> {},
             types |-> {}, entry_points |-> {}]
    /\ log = {}
    /\ exc = ""
    /\ emitted = {}
    /\ prev_emitted = {}
    /\ iters = [exports |-> 0, imports |-> 0]
    /\ workers = <<>>
    /\ main_queue = 0

\* sweep_before_load(bv), called on the main thread:
\* threading.Thread(target=n_linearsweep).start()
SweepBeforeLoad ==
    /\ MainThreadIdle
    /\ Len(workers) < MaxInvocations
    /\ workers' = Append(workers, NewWorker)
    /\ UNCHANGED <<image, pc, run, self, bv, log, exc, emitted, prev_emitted, iters, main_queue>>

\* while i < n_max: enter the body, or leave the loop at the cap
LinearSweepWhile(k) ==
    /\ workers[k].at = "while"
    /\ workers' = [workers EXCEPT
                      ![k].at = IF loop_test(workers[k].i) THEN "sweeping" ELSE "after_loop"]
    /\ UNCHANGED <<image, pc, run, self, bv, log, exc, emitted, prev_emitted, iters, main_queue>>

\* The loop body: update_analysis_and_wait, add_analysis_option("linearsweep"),
\* update_analysis_and_wait, then the count and the break test
LinearSweepBody(k) ==
    /\ workers[k].at = "sweeping"
    /\ \E found \in 0..MaxFound :
          /\ found <= Cardinality(SweepCandidates)
          /\ LET swept == [bv EXCEPT !.functions = @ \cup FirstCandidates(found)]
                 cur_func_cnt == Cardinality(swept.functions)
             IN  /\ bv' = swept
                 /\ IF count_unchanged(cur_func_cnt, workers[k].func_cnt)
                    THEN /\ log' = log \cup {Info("No new functions created at linearsweep")}
                         /\ workers' = [workers EXCEPT ![k].at = "after_loop",
                                                       ![k].sweeps = @ + 1]
                    ELSE /\ log' = log
                         /\ workers' = [workers EXCEPT ![k].at = "while",
                                                       ![k].func_cnt = cur_func_cnt,
                                                       ![k].i = @ + 1,
                                                       ![k].sweeps = @ + 1]
    /\ UNCHANGED <<image, pc, run, self, exc, emitted, prev_emitted, iters, main_queue>>

\* After the loop: execute_on_main_thread(lambda: VitaElf(bv).load_vita_symbols())
ExecuteOnMainThread(k) ==
    /\ workers[k].at = "after_loop"
    /\ log' = IF workers[k].i >= n_max
              THEN log \cup {Info("ran linear sweeps, potentially more functions undiscovered")}
              ELSE log
    /\ main_queue' = main_queue + 1
    /\ workers' = [workers EXCEPT ![k].at = "finished", ![k].dispatches = @ + 1]
    /\ UNCHANGED <<image, pc, run, self, bv, exc, emitted, prev_emitted, iters>>

\* The main thread takes a queued callable: VitaElf(bv), then load_vita_symbols
MainThreadRun ==
    /\ MainThreadIdle
    /\ main_queue > 0
    /\ main_queue' = main_queue - 1
    /\ run' = run + 1
    /\ pc' = "parse_elf"
    /\ self' = NewVitaElf
    /\ log' = {}
    /\ exc' = ""
    /\ prev_emitted' = emitted
    /\ emitted' = {}
    /\ iters' = [exports |-> 0, imports |-> 0]
    /\ UNCHANGED <<image, bv, workers>>

SweepNext ==
    \/ SweepBeforeLoad
    \/ \E k \in 1..Len(workers) : LinearSweepWhile(k)
    \/ \E k \in 1..Len(workers) : LinearSweepBody(k)
    \/ \E k \in 1..Len(workers) : ExecuteOnMainThread(k)
    \/ MainThreadRun
    \/ ParseElf
    \/ ParseSceModuleInfo
    \/ LoadNidDatabase
    \/ LoadHeaders
    \/ ProcessExports
    \/ ExportRecord
    \/ ExportsEnd
    \/ ProcessImports
    \/ ImportRecord
    \/ ImportsEnd
    \/ AddEntryPoint
    \/ CleanDataSegs
    \/ CatchException

SweepSpec == SweepInit /\ [][SweepNext]_vars

\* The threads run: a thread that can take a step eventually takes one
WorkerStep(k) ==
    /\ k <= Len(workers)
    /\ (LinearSweepWhile(k) \/ LinearSweepBody(k) \/ ExecuteOnMainThread(k))

FairSweepSpec == SweepSpec /\ \A k \in 1..MaxInvocations : WF_vars(WorkerStep(k))

----------------------------------------------------------------------------
(* C15: one dispatch per invocation, after at most five sweeps *)

Finished == {k \in 1..Len(workers) : workers[k].at = "finished"}

\* C15: a thread of sweep_before_load runs at most 5 sweep iterations; it has
\* handed load_vita_symbols to the main thread once when it has finished and
\* not at all before, so that the runs started and the callables still queued
\* add up to the finished threads; and every thread started does finish.
C15_OneDispatchAfterLoop ==
    /\ [](\A k \in 1..Len(workers) :
            /\ workers[k].sweeps <= 5
            /\ workers[k].dispatches = IF workers[k].at = "finished" THEN 1 ELSE 0)
    /\ [](run + main_queue = Cardinality(Finished))
    /\ \A k \in 1..MaxInvocations :
          [](Len(workers) >= k => <>(k \in Finished))

\* C15 witness: one thread finished by convergence and one at the cap of five
\* sweeps, both dispatched
C15_Witness ==
    /\ Len(workers) = 2
    /\ \A k \in 1..2 : workers[k].at = "finished" /\ workers[k].dispatches = 1
    /\ \E k \in 1..2 : workers[k].sweeps = 5 /\ workers[k].i = 5
    /\ \E k \in 1..2 : workers[k].sweeps < 5 /\ workers[k].i < 5
    /\ run + main_queue = 2

----------------------------------------------------------------------------
(* C16: the early stop of the sweep loop *)

\* Thread k ends a sweep iteration in this step
EndsSweep(k) == workers[k].at = "sweeping" /\ workers'[k] # workers[k]

\* A thread whose loop has ended sweeps no more
NoSweepAfterLoop ==
    \A k \in 1..Len(workers) :
        workers[k].at \in {"after_loop", "finished"} =>
            workers'[k].sweeps = workers[k].sweeps

\* A thread with these locals runs one more sweep: it is back at the loop test
\* below the cap
SweepsAgain(w) == w.at = "while" /\ w.i < n_max

----------------------------------------------------------------------------
(* C17: the view is changed from one thread at a time *)

\* C17: a step of load_vita_symbols that changes the view is taken while no
\* n_linearsweep thread is inside a sweep iteration, however many times the
\* command was invoked.
C17_NoConcurrentMutation ==
    [][(~MainThreadIdle /\ workers' = workers /\ bv' # bv)
          => \A k \in 1..Len(workers) : workers[k].at # "sweeping"]_vars

====
